---- MODULE Spec2Model ----
(***************************************************************************)
(* Model of kats/detectors/meta_learning/metalearning_detection_model.py:  *)
(* the row coercion utilities, metadata_detect_preprocessor and the        *)
(* MetaDetectModelSelect orchestrator.                                     *)
(*                                                                         *)
(* Python values are modelled as follows.                                  *)
(*  - A number is [n, k], the rational n / NUM_SECS_IN_DAY^k in lowest     *)
(*    form with respect to NUM_SECS_IN_DAY (floating point rounding is not *)
(*    modelled).                                                           *)
(*  - A feature value is [t, v, ok]: t is the Python type ("int", "float", *)
(*    "str"), v the number in units of 1/(10*FORMAT_SCALE) for floats and  *)
(*    numeric strings and the integer itself for ints, ok tells whether a  *)
(*    string is numeric.                                                   *)
(*  - A piece of text is modelled by what ast.literal_eval makes of it:    *)
(*    lit = "dict" (a mapping literal, whose content is the text field),   *)
(*    "int" (a literal that is not a mapping) or "invalid" (no literal).   *)
(*  - The parameter mappings of hpt_res (the first list element of every   *)
(*    model's entry) are mutable objects: they live in heap, and cells and *)
(*    training records hold their addresses.                               *)
(***************************************************************************)
EXTENDS Integers, Sequences, FiniteSets, TLC

NUM_SECS_IN_DAY == 3600 * 24
PARAMS_TO_SCALE_DOWN == {"historical_window", "scan_window"}
MIN_EXAMPLES == 30
expected_cols == <<"hpt_res", "features", "best_model">>
TRAIN_FIRST_MSG == "Please train a classifier first."
FORMAT_SCALE == 10000

\* Bounds of the model.
MaxRows == 31
MaxTrain == 2
MaxStandalone == 2

Range(s) == {s[i] : i \in DOMAIN s}
EmptyMap == <<>>

-----------------------------------------------------------------------------
(* Numbers and the scaling division of line 85.                            *)

Num(n) == [n |-> n, k |-> 0]

RECURSIVE Norm(_)
Norm(v) ==
    IF v.k > 0 /\ v.n % NUM_SECS_IN_DAY = 0
    THEN Norm([n |-> v.n \div NUM_SECS_IN_DAY, k |-> v.k - 1])
    ELSE v

\* params[param] / NUM_SECS_IN_DAY
ScaleDown(v) == Norm([n |-> v.n, k |-> v.k + 1])

-----------------------------------------------------------------------------
(* Feature values, float() and format(x, ".4f").                           *)

IntV(n) == [t |-> "int", v |-> n, ok |-> TRUE]
FloatV(u) == [t |-> "float", v |-> u, ok |-> TRUE]
StrV(u) == [t |-> "str", v |-> u, ok |-> TRUE]
BadStrV == [t |-> "str", v |-> 0, ok |-> FALSE]
NaN == [t |-> "nan", v |-> 0, ok |-> TRUE]

\* float(x): [ok, val]; a non-numeric string raises ValueError.
to_float(x) ==
    IF x.t = "str" /\ ~x.ok THEN [ok |-> FALSE, val |-> x]
    ELSE IF x.t = "int" THEN [ok |-> TRUE, val |-> FloatV(x.v * 10 * FORMAT_SCALE)]
    ELSE IF x.t = "nan" THEN [ok |-> TRUE, val |-> NaN]
    ELSE [ok |-> TRUE, val |-> FloatV(x.v)]

\* format(feature_val, ".4f"): four decimals, ties to even.
format4f(x) ==
    LET q == x.v \div 10
        r == x.v % 10
        up == r > 5 \/ (r = 5 /\ q % 2 = 1)
    IN StrV(10 * (IF up THEN q + 1 ELSE q))

\* Order in which a feature mapping is iterated.
FeatureOrder == <<"f1", "f2">>

RECURSIVE change_dtype_from(_, _)
change_dtype_from(d, j) ==
    IF j > Len(FeatureOrder) THEN [ok |-> TRUE, d |-> d]
    ELSE LET elm == FeatureOrder[j] IN
         IF elm \notin DOMAIN d THEN change_dtype_from(d, j + 1)
         ELSE LET f == to_float(d[elm]) IN
              IF ~f.ok THEN [ok |-> FALSE, d |-> d]
              ELSE change_dtype_from([d EXCEPT ![elm] = f.val], j + 1)

\* change_dtype(d) on a mapping: [ok, d], d being the mapping as the loop
\* left it (converted in place up to the failing element).
change_dtype(d) == change_dtype_from(d, 1)

\* get_ts_features: TsFeatures' result with every non-NaN value formatted.
get_ts_features(feats) ==
    [name \in DOMAIN feats |->
        IF feats[name].t = "nan" THEN feats[name] ELSE format4f(feats[name])]

-----------------------------------------------------------------------------
(* change_str_to_dict on the Python values the module hands to it.         *)
(* A value is [type, lit, items]: type is "dict", "str", "int" or "None";  *)
(* lit describes a str; items is the content of a dict or of the mapping   *)
(* a str denotes.                                                          *)

PyNone == [type |-> "None", lit |-> "na", items |-> EmptyMap]
PyInt == [type |-> "int", lit |-> "na", items |-> EmptyMap]
PyDict(items) == [type |-> "dict", lit |-> "na", items |-> items]
PyStr(items) == [type |-> "str", lit |-> "dict", items |-> items]
PyStrInt == [type |-> "str", lit |-> "int", items |-> EmptyMap]
PyStrInvalid == [type |-> "str", lit |-> "invalid", items |-> EmptyMap]

\* ast.literal_eval(x): [ok, val].
literal_eval(x) ==
    IF x.lit = "dict" THEN [ok |-> TRUE, val |-> PyDict(x.items)]
    ELSE IF x.lit = "int" THEN [ok |-> TRUE, val |-> PyInt]
    ELSE [ok |-> FALSE, val |-> PyNone]

\* [kind, err, val]: kind "return" with val, or "raise" with err.
change_str_to_dict(x) ==
    IF x.type = "dict" THEN [kind |-> "return", err |-> "", val |-> x]
    ELSE IF x.type = "str" THEN
        LET e == literal_eval(x) IN
        IF e.ok THEN [kind |-> "return", err |-> "", val |-> e.val]
        ELSE [kind |-> "return", err |-> "", val |-> PyNone]
    ELSE [kind |-> "raise", err |-> "ValueError", val |-> PyNone]

-----------------------------------------------------------------------------
(* metadata_detect_preprocessor.                                           *)
(* rawdata is [isDataFrame, cols, n, features, hpt_res, best_model]; a     *)
(* features cell is a value as above with items name -> feature value; an  *)
(* hpt_res cell of type "str" has items model -> <<params, score>> and one *)
(* of type "dict" has items model -> <<[addr |-> address of params],       *)
(* score>>.                                                                *)

\* Order in which an hpt_res mapping is iterated.
ModelOrder == <<"cusum", "bocpd">>

MapCells(cells) == [i \in DOMAIN cells |-> change_str_to_dict(cells[i])]
AnyRaise(rs) == \E i \in DOMAIN rs : rs[i].kind = "raise"
Vals(rs) == [i \in DOMAIN rs |-> rs[i].val]

\* The first index of S, n + 1 if S is empty.
FirstIndex(S, n) == IF S = {} THEN n + 1 ELSE CHOOSE i \in S : \A j \in S : i <= j

\* rawdata["features"].map(change_dtype): [ok, err, cells].  The cells are
\* converted in order up to the first one on which change_dtype raises:
\* a cell that is no mapping (TypeError) or one with a value float()
\* rejects (ValueError), which is left converted up to that value.
MapDtype(cells) ==
    LET conv(i) == change_dtype(cells[i].items)
        fails(i) == cells[i].type # "dict" \/ ~conv(i).ok
        j == FirstIndex({i \in DOMAIN cells : fails(i)}, Len(cells))
    IN [ok |-> j > Len(cells),
        err |-> IF j > Len(cells) THEN ""
                ELSE IF cells[j].type # "dict" THEN "TypeError" ELSE "ValueError",
        cells |-> [i \in DOMAIN cells |->
                     IF i < j \/ (i = j /\ cells[i].type = "dict")
                     THEN PyDict(conv(i).d) ELSE cells[i]]]

\* The largest address in use.
MaxAddr(h) == IF DOMAIN h = {} THEN 0 ELSE CHOOSE a \in DOMAIN h : \A b \in DOMAIN h : b <= a

\* rawdata["hpt_res"].map(change_str_to_dict) for cells that do not raise:
\* [heap, cells].  A mapping is kept as it is; text that denotes a mapping
\* becomes a new mapping whose parameter mappings are new objects: the one
\* of row i and of the j-th model gets the address
\* MaxAddr(h) + (i - 1) * Len(ModelOrder) + j.
ParseHpt(h, cells) ==
    LET L == Len(ModelOrder)
        base == MaxAddr(h)
        r(i) == change_str_to_dict(cells[i]).val
        isNew(i) == cells[i].type = "str" /\ r(i).type = "dict"
        addrOf(i, j) == base + (i - 1) * L + j
        pos(m) == CHOOSE j \in 1..L : ModelOrder[j] = m
        rowOf(a) == ((a - base - 1) \div L) + 1
        modelOf(a) == ModelOrder[((a - base - 1) % L) + 1]
        new == {addrOf(q[1], pos(q[2])) : q \in
                   {q \in (DOMAIN cells) \X Range(ModelOrder) :
                       isNew(q[1]) /\ q[2] \in DOMAIN r(q[1]).items}}
    IN [heap |-> [a \in DOMAIN h \cup new |->
                    IF a \in DOMAIN h THEN h[a]
                    ELSE r(rowOf(a)).items[modelOf(a)][1]],
        cells |-> [i \in DOMAIN cells |->
                    IF isNew(i)
                    THEN PyDict([m \in DOMAIN r(i).items |->
                                   <<[addr |-> addrOf(i, pos(m))], r(i).items[m][2]>>])
                    ELSE r(i)]]

\* Lines 83-85 without the membership test of line 84.
ScaleParams_all(params, params_to_scale_down) ==
    [param \in DOMAIN params |-> ScaleDown(params[param])]

\* Lines 83-85 on one parameter mapping.
ScaleParams(params, params_to_scale_down) ==
    [param \in DOMAIN params |->
        IF param \in params_to_scale_down THEN ScaleDown(params[param])
        ELSE params[param]]

\* Lines 83-85 carried out k times on the same parameter mapping.
RECURSIVE ScaleTimes(_, _, _)
ScaleTimes(params, S, k) ==
    IF k = 0 THEN params ELSE ScaleTimes(ScaleParams(params, S), S, k - 1)

\* Lines 80-85 over the records in order: [ok, heap].  The loop stops at the
\* first record whose hpt_res is no mapping (AttributeError); lines 83-85
\* run on a parameter mapping once for every (record, model) before that
\* point whose list holds it.
ScaleTable(h, cells, S) ==
    LET j == FirstIndex({i \in DOMAIN cells : cells[i].type # "dict"}, Len(cells))
        refs(a) == {q \in (1..(j - 1)) \X Range(ModelOrder) :
                       /\ q[2] \in DOMAIN cells[q[1]].items
                       /\ cells[q[1]].items[q[2]][1].addr = a}
    IN [ok |-> j > Len(cells),
        heap |-> [a \in DOMAIN h |-> ScaleTimes(h[a], S, Cardinality(refs(a)))]]

\* Lines 71-78 with the rows taken from the end.
BuildTable_reversed(rawdata) ==
    [i \in 1..rawdata.n |->
        [hpt_res |-> rawdata.hpt_res[rawdata.n + 1 - i],
         features |-> rawdata.features[rawdata.n + 1 - i],
         best_model |-> rawdata.best_model[rawdata.n + 1 - i]]]

\* Lines 71-78.
BuildTable(rawdata) ==
    [i \in 1..rawdata.n |->
        [hpt_res |-> rawdata.hpt_res[i],
         features |-> rawdata.features[i],
         best_model |-> rawdata.best_model[i]]]

PreRaise(err, rawdata, h) ==
    [kind |-> "raise", err |-> err, df |-> rawdata, heap |-> h, table |-> <<>>]

\* [kind, err, df, heap, table]: the outcome, the table and the heap as the
\* call leaves them, and the returned records.
metadata_detect_preprocessor(rawdata, h, params_to_scale_down) ==
    IF ~rawdata.isDataFrame THEN PreRaise("TypeError", rawdata, h)
    ELSE IF "features" \notin rawdata.cols THEN PreRaise("KeyError", rawdata, h)
    ELSE LET fa == MapCells(rawdata.features) IN
    IF AnyRaise(fa) THEN PreRaise("ValueError", rawdata, h)
    ELSE LET fb == MapDtype(Vals(fa))
             df1 == [rawdata EXCEPT !.features = fb.cells]
    IN
    IF ~fb.ok THEN PreRaise(fb.err, df1, h)
    ELSE IF "hpt_res" \notin rawdata.cols THEN PreRaise("KeyError", df1, h)
    ELSE IF AnyRaise(MapCells(rawdata.hpt_res)) THEN PreRaise("ValueError", df1, h)
    ELSE LET hp == ParseHpt(h, rawdata.hpt_res)
             df2 == [df1 EXCEPT !.hpt_res = hp.cells]
    IN
    IF "best_model" \notin rawdata.cols THEN PreRaise("KeyError", df2, hp.heap)
    ELSE LET sc == ScaleTable(hp.heap, df2.hpt_res, params_to_scale_down) IN
    IF ~sc.ok THEN PreRaise("AttributeError", df2, sc.heap)
    ELSE [kind |-> "return", err |-> "", df |-> df2, heap |-> sc.heap,
          table |-> BuildTable(df2)]

-----------------------------------------------------------------------------
(* The inputs: metadata tables, series and evaluation tables.              *)

Labels == {"cusum", "bocpd"}

ParamsCusum(i) ==
    [historical_window |-> Num(NUM_SECS_IN_DAY * i),
     scan_window |-> Num(3600 * i),
     threshold |-> Num(5)]
ParamsBocpd(i) ==
    [scan_window |-> Num(NUM_SECS_IN_DAY), delta |-> Num(NUM_SECS_IN_DAY)]

\* The hpt_res mapping of row i as its text denotes it.
HptItems(i) ==
    IF i % 2 = 1
    THEN [m \in {"cusum", "bocpd"} |->
            IF m = "cusum" THEN <<ParamsCusum(i), 1>> ELSE <<ParamsBocpd(i), 2>>]
    ELSE [m \in {"cusum"} |-> <<ParamsCusum(i), 1>>]

FeatureItems(i) == [name \in {"f1", "f2"} |-> IF name = "f1" THEN IntV(i) ELSE StrV(12340)]

BadRowH == 2
BadRowF == 3

HptCells(n, bad) ==
    [i \in 1..n |->
        IF i = BadRowH /\ bad = "invalid" THEN PyStrInvalid
        ELSE IF i = BadRowH /\ bad = "int" THEN PyStrInt
        ELSE PyStr(HptItems(i))]

FeatureCells(n, form, bad) ==
    [i \in 1..n |->
        IF i = BadRowF /\ bad = "invalid" THEN PyStrInvalid
        ELSE IF form = "str" THEN PyStr(FeatureItems(i))
        ELSE PyDict(FeatureItems(i))]

BestModels(n) == [i \in 1..n |-> IF i % 2 = 1 THEN "cusum" ELSE "bocpd"]

RowCounts == {0, 10} \cup (MIN_EXAMPLES .. MaxRows)
ScaleSets == {PARAMS_TO_SCALE_DOWN, {"threshold"}}
NotADataFrame ==
    [isDataFrame |-> FALSE, cols |-> {}, n |-> 0,
     features |-> <<>>, hpt_res |-> <<>>, best_model |-> <<>>]

\* TsFeatures(hw_params=False).transform(ts): [ok, feats].
TsInputs == {"series", "broken"}
TsFeaturesTransform(ts) ==
    IF ts = "series"
    THEN [ok |-> TRUE, feats |-> [name \in {"f1", "f2"} |->
                                     IF name = "f1" THEN FloatV(123456) ELSE NaN]]
    ELSE [ok |-> FALSE, feats |-> EmptyMap]

\* The evaluation tables handed to pred_by_feature.
EvalInputs == {"wellformed", "badcell", "nonnumeric", "nocolumn"}
EvalDf(name) ==
    IF name = "wellformed"
    THEN [cols |-> {"features"},
          features |-> <<PyDict(FeatureItems(1)), PyStr(FeatureItems(2))>>]
    ELSE IF name = "badcell"
    THEN [cols |-> {"features"}, features |-> <<PyStr(FeatureItems(1)), PyStrInvalid>>]
    ELSE IF name = "nonnumeric"
    THEN [cols |-> {"features"},
          features |-> <<PyDict([FeatureItems(1) EXCEPT !["f2"] = BadStrV])>>]
    ELSE [cols |-> {}, features |-> <<>>]

\* The metrics mappings MetaLearnModelSelect.train can return.
MetricsSet ==
    {[fit_error |-> e, pred_error |-> e + 1, clf_accuracy |-> 1] : e \in 1..2}

-----------------------------------------------------------------------------
(* State.                                                                  *)

VARIABLES
    metadata_df,          \* the table object handed to the constructor
    heap,                 \* the parameter mappings of structured hpt_res cells
    phase,                \* "new", "constructed" or "rejected"
    results,              \* self.results
    mlms,                 \* self.mlms; id 0 is None
    params_to_scale_down, \* the scaling set handed to the constructor
    nclf,                 \* classifiers constructed so far
    trainCalls,           \* calls of train so far
    trainOk,              \* calls of train that returned
    standaloneCalls,      \* direct calls of metadata_detect_preprocessor
    orig,                 \* hpt_res of the table as the constructor received it
    last                  \* the last call and its outcome

vars == <<metadata_df, heap, phase, results, mlms, params_to_scale_down, nclf,
          trainCalls, trainOk, standaloneCalls, orig, last>>

None == [id |-> 0, fitted |-> FALSE, records |-> <<>>]
Unset == [type |-> "unset", items |-> EmptyMap]
EmptyDict == [type |-> "dict", items |-> EmptyMap]
NoSummary == [type |-> <<>>, error_metric |-> "", rows |-> <<>>]

NoCall ==
    [op |-> "", arg |-> "", x |-> PyNone, kind |-> "", err |-> "", msg |-> "",
     label |-> "", labels |-> <<>>, metrics |-> Unset, collab |-> EmptyMap,
     summary |-> NoSummary, table |-> <<>>, val |-> PyNone]
Raise(op, err, msg) == [NoCall EXCEPT !.op = op, !.kind = "raise", !.err = err, !.msg = msg]
Return(op) == [NoCall EXCEPT !.op = op, !.kind = "return"]
WithArg(call, arg) == [call EXCEPT !.arg = arg]

\* The hpt_res column by value: row -> model -> parameter mapping.
HptView(cells, h) ==
    [i \in DOMAIN cells |->
        IF cells[i].type = "dict"
        THEN [m \in DOMAIN cells[i].items |-> h[cells[i].items[m][1].addr]]
        ELSE IF cells[i].type = "str" /\ cells[i].lit = "dict"
        THEN [m \in DOMAIN cells[i].items |-> cells[i].items[m][1]]
        ELSE EmptyMap]

Init ==
    /\ \/ metadata_df = NotADataFrame /\ heap = <<>>
       \/ \E n \in RowCounts, cols \in SUBSET Range(expected_cols),
             hform \in {"str", "dict"}, fform \in {"str", "dict"},
             badh \in {"none", "invalid", "int"}, badf \in {"none", "invalid"} :
            LET hcells == HptCells(n, badh)
                parsed == ParseHpt(<<>>, hcells)
            IN /\ heap = IF hform = "dict" THEN parsed.heap ELSE <<>>
               /\ metadata_df =
                    [isDataFrame |-> TRUE, cols |-> cols, n |-> n,
                     features |-> FeatureCells(n, fform, badf),
                     hpt_res |-> IF hform = "dict"
                                 THEN [i \in 1..n |-> IF hcells[i].lit = "dict"
                                                      THEN parsed.cells[i] ELSE hcells[i]]
                                 ELSE hcells,
                     best_model |-> BestModels(n)]
    /\ params_to_scale_down \in ScaleSets
    /\ phase = "new"
    /\ results = Unset
    /\ mlms = None
    /\ nclf = 0
    /\ trainCalls = 0
    /\ trainOk = 0
    /\ standaloneCalls = 0
    /\ orig = <<>>
    /\ last = NoCall

-----------------------------------------------------------------------------
(* MetaDetectModelSelect.__init__                                          *)

\* Line 125 with < in place of <=.
TooSmall_lt(df) == df.n < MIN_EXAMPLES

\* Line 125.
TooSmall(df) == df.n <= MIN_EXAMPLES

\* Lines 130-132: the expected columns that are missing, in order.
MissingCols(df) == SelectSeq(expected_cols, LAMBDA col : col \notin df.cols)

\* The message of the ValueError the constructor raises, "" if it raises none.
InitError(df) ==
    IF ~df.isDataFrame THEN "Dataset is not in form of a dataframe!"
    ELSE IF TooSmall(df) THEN "Dataset is too small to train a meta learner!"
    ELSE IF MissingCols(df) # <<>> THEN "Missing column"
    ELSE ""

MetaDetectModelSelect_init ==
    /\ phase = "new"
    /\ LET msg == InitError(metadata_df) IN
       IF msg # ""
       THEN /\ phase' = "rejected"
            /\ last' = Raise("__init__", "ValueError", msg)
            /\ UNCHANGED <<results, mlms, orig>>
       ELSE /\ phase' = "constructed"
            /\ results' = EmptyDict
            /\ mlms' = None
            /\ orig' = HptView(metadata_df.hpt_res, heap)
            /\ last' = Return("__init__")
    /\ UNCHANGED <<metadata_df, heap, params_to_scale_down, nclf, trainCalls,
                   trainOk, standaloneCalls>>

-----------------------------------------------------------------------------
(* train                                                                   *)

\* What the collaborator does in one train call: its constructor raises,
\* its train raises, or both return.
TrainOutcomes == {"ctor_raises", "train_raises", "ok"}

\* MetaLearnModelSelect(records), line 163: the k+1-th classifier object.
NewClassifier(k, table) == [id |-> k + 1, fitted |-> FALSE, records |-> table]

\* Line 164 with the assignment to self.results left out.
StoreResults_keep(res, m) == res

\* self.results = self.mlms.train(...), line 164.
StoreResults(res, m) == [type |-> "dict", items |-> m]

\* Lines 163-171 once self._preprocess() has ended as p.
TrainWith(p, clf, res, k, out, m) ==
    LET new == NewClassifier(k, p.table)
        base == [df |-> p.df, heap |-> p.heap, mlms |-> clf, results |-> res,
                 nclf |-> k, kind |-> "raise", err |-> p.err, collab |-> EmptyMap]
    IN IF p.kind = "raise" THEN base
       ELSE IF out = "ctor_raises" THEN [base EXCEPT !.err = "External"]
       ELSE IF out = "train_raises"
       THEN [base EXCEPT !.mlms = new, !.nclf = k + 1, !.err = "External"]
       ELSE [base EXCEPT !.mlms = [new EXCEPT !.fitted = TRUE], !.nclf = k + 1,
                         !.results = StoreResults(res, m), !.collab = m,
                         !.kind = "return", !.err = ""]

\* Line 145.
preprocess(df, h, S) == metadata_detect_preprocessor(df, h, S)

\* The body of train on the orchestrator's fields: the fields as the call
\* leaves them and the call's outcome.
train(df, h, clf, res, k, S, out, m) == TrainWith(preprocess(df, h, S), clf, res, k, out, m)

Train ==
    /\ phase = "constructed"
    /\ trainCalls < MaxTrain
    /\ \E out \in TrainOutcomes, m \in MetricsSet :
         \E t \in {train(metadata_df, heap, mlms, results, nclf,
                        params_to_scale_down, out, m)} :
            /\ metadata_df' = t.df
            /\ heap' = t.heap
            /\ mlms' = t.mlms
            /\ results' = t.results
            /\ nclf' = t.nclf
            /\ trainOk' = IF t.kind = "return" THEN trainOk + 1 ELSE trainOk
            /\ last' = IF t.kind = "return"
                       THEN [Return("train") EXCEPT !.metrics = t.results,
                                                    !.collab = t.collab]
                       ELSE Raise("train", t.err, "")
    /\ trainCalls' = trainCalls + 1
    /\ UNCHANGED <<phase, params_to_scale_down, standaloneCalls, orig>>

-----------------------------------------------------------------------------
(* report_metrics                                                          *)

\* Line 175.
NeedsTraining(res) == res.type = "None"

\* Lines 178-183.
Summary(res) ==
    [type |-> <<"fit_error", "pred_error">>,
     error_metric |-> "Inverted F-score",
     rows |-> <<res.items["fit_error"], res.items["pred_error"]>>]

ReportMetrics ==
    /\ phase = "constructed"
    /\ \E out \in TrainOutcomes, m \in MetricsSet :
         \E t \in {IF NeedsTraining(results)
                   THEN train(metadata_df, heap, mlms, results, nclf,
                              params_to_scale_down, out, m)
                   ELSE [df |-> metadata_df, heap |-> heap, mlms |-> mlms,
                         results |-> results, nclf |-> nclf,
                         kind |-> "return", err |-> "", collab |-> EmptyMap]} :
            /\ metadata_df' = t.df
            /\ heap' = t.heap
            /\ mlms' = t.mlms
            /\ results' = t.results
            /\ nclf' = t.nclf
            /\ trainCalls' = IF NeedsTraining(results) THEN trainCalls + 1 ELSE trainCalls
            /\ trainOk' = IF NeedsTraining(results) /\ t.kind = "return"
                          THEN trainOk + 1 ELSE trainOk
            /\ last' = IF t.kind = "raise" THEN Raise("report_metrics", t.err, "")
                       ELSE IF "fit_error" \notin DOMAIN t.results.items
                       THEN Raise("report_metrics", "KeyError", "fit_error")
                       ELSE IF "pred_error" \notin DOMAIN t.results.items
                       THEN Raise("report_metrics", "KeyError", "pred_error")
                       ELSE [Return("report_metrics") EXCEPT !.summary = Summary(t.results)]
    /\ UNCHANGED <<phase, params_to_scale_down, standaloneCalls, orig>>

-----------------------------------------------------------------------------
(* predict, fit_results, pred_by_feature                                   *)

\* self.mlms.pred_by_feature(matrix) on n rows: the possible outcomes.  A
\* fitted classifier returns one label per row; what an unfitted one does
\* is the collaborator's business; None has no such attribute.
PredOutcomes(clf, n) ==
    LET returns == {[kind |-> "return", err |-> "", labels |-> [i \in 1..n |-> a]] : a \in Labels}
    IN IF clf.id = 0 THEN {[kind |-> "raise", err |-> "AttributeError", labels |-> <<>>]}
       ELSE IF clf.fitted THEN returns
       ELSE returns \cup {[kind |-> "raise", err |-> "External", labels |-> <<>>]}

\* Line 191.
IsNone_predict(clf) == clf.id = 0

\* Line 212 with the check left out.
IsNone_unchecked(clf) == FALSE

\* Line 212.
IsNone_fit_results(clf) == clf.id = 0

\* Line 236: an assert statement, which python -O removes.
AssertErrors(clf) ==
    IF clf.id = 0 THEN {"AssertionError", "AttributeError"} ELSE {}

Predict ==
    /\ phase = "constructed"
    /\ \E ts \in TsInputs :
         LET f == TsFeaturesTransform(ts)
             c == change_dtype(get_ts_features(f.feats))
         IN IF ~f.ok THEN last' = WithArg(Raise("predict", "External", ""), ts)
            ELSE IF ~c.ok THEN last' = WithArg(Raise("predict", "ValueError", ""), ts)
            ELSE IF IsNone_predict(mlms)
            THEN last' = WithArg(Raise("predict", "ValueError", TRAIN_FIRST_MSG), ts)
            ELSE \E r \in PredOutcomes(mlms, 1) :
                   last' = WithArg(IF r.kind = "raise" THEN Raise("predict", r.err, "")
                                   ELSE [Return("predict") EXCEPT !.label = r.labels[1]], ts)
    /\ UNCHANGED <<metadata_df, heap, phase, results, mlms, params_to_scale_down,
                   nclf, trainCalls, trainOk, standaloneCalls, orig>>

\* Lines 203-210 and 227-234 on a features column: [kind, err, cells],
\* cells being the column as the conversion in place leaves it.
FeatureList(cells) ==
    LET rs == MapCells(cells) IN
    IF AnyRaise(rs) THEN [kind |-> "raise", err |-> "ValueError", cells |-> cells]
    ELSE LET md == MapDtype(Vals(rs))
             after == [i \in DOMAIN cells |->
                          IF cells[i].type = "dict" THEN md.cells[i] ELSE cells[i]]
         IN [kind |-> IF md.ok THEN "return" ELSE "raise", err |-> md.err,
             cells |-> after]

FitResults ==
    /\ phase = "constructed"
    /\ \E fl \in {FeatureList(metadata_df.features)} :
       /\ metadata_df' = [metadata_df EXCEPT !.features = fl.cells]
       /\ IF fl.kind = "raise" THEN last' = Raise("fit_results", fl.err, "")
          ELSE IF IsNone_fit_results(mlms)
          THEN last' = Raise("fit_results", "ValueError", TRAIN_FIRST_MSG)
          ELSE \E r \in PredOutcomes(mlms, metadata_df.n) :
                 last' = IF r.kind = "raise" THEN Raise("fit_results", r.err, "")
                         ELSE [Return("fit_results") EXCEPT !.labels = r.labels]
    /\ UNCHANGED <<heap, phase, results, mlms, params_to_scale_down, nclf,
                   trainCalls, trainOk, standaloneCalls, orig>>

PredByFeature ==
    /\ phase = "constructed"
    /\ \E name \in EvalInputs :
         LET eval_df == EvalDf(name) IN
         IF "features" \notin eval_df.cols
         THEN last' = WithArg(Raise("pred_by_feature", "KeyError", "features"), name)
         ELSE \E fl \in {FeatureList(eval_df.features)} :
              IF fl.kind = "raise"
              THEN last' = WithArg(Raise("pred_by_feature", fl.err, ""), name)
              ELSE IF AssertErrors(mlms) # {}
              THEN \E e \in AssertErrors(mlms) :
                     last' = WithArg(Raise("pred_by_feature", e, ""), name)
              ELSE \E r \in PredOutcomes(mlms, Len(eval_df.features)) :
                     last' = WithArg(IF r.kind = "raise"
                                     THEN Raise("pred_by_feature", r.err, "")
                                     ELSE [Return("pred_by_feature") EXCEPT !.labels = r.labels],
                                     name)
    /\ UNCHANGED <<metadata_df, heap, phase, results, mlms, params_to_scale_down,
                   nclf, trainCalls, trainOk, standaloneCalls, orig>>

-----------------------------------------------------------------------------
(* Direct calls of the module's functions.                                 *)

Preprocess ==
    /\ standaloneCalls < MaxStandalone
    /\ \E p \in {metadata_detect_preprocessor(metadata_df, heap, params_to_scale_down)} :
       /\ metadata_df' = p.df
       /\ heap' = p.heap
       /\ last' = IF p.kind = "raise" THEN Raise("metadata_detect_preprocessor", p.err, "")
                  ELSE [Return("metadata_detect_preprocessor") EXCEPT !.table = p.table]
    /\ standaloneCalls' = standaloneCalls + 1
    /\ UNCHANGED <<phase, results, mlms, params_to_scale_down, nclf, trainCalls,
                   trainOk, orig>>

CoerceInputs ==
    {PyDict(FeatureItems(1)), PyStr(FeatureItems(1)), PyStrInt, PyStrInvalid,
     PyInt, PyNone}

ChangeStrToDict ==
    /\ \E x \in CoerceInputs :
         LET r == change_str_to_dict(x) IN
         last' = IF r.kind = "raise"
                 THEN [Raise("change_str_to_dict", r.err, "") EXCEPT !.x = x]
                 ELSE [Return("change_str_to_dict") EXCEPT !.val = r.val, !.x = x]
    /\ UNCHANGED <<metadata_df, heap, phase, results, mlms, params_to_scale_down,
                   nclf, trainCalls, trainOk, standaloneCalls, orig>>

\* The orchestrator: construction and the methods of MetaDetectModelSelect.
Next ==
    \/ MetaDetectModelSelect_init
    \/ Train
    \/ ReportMetrics
    \/ Predict
    \/ FitResults
    \/ PredByFeature

Spec == Init /\ [][Next]_vars

\* The module's functions applied to the input tables and values.
NextFunctions ==
    \/ Preprocess
    \/ ChangeStrToDict

SpecFunctions == Init /\ [][NextFunctions]_vars

-----------------------------------------------------------------------------
(* Properties.                                                             *)

\* A cell that is a mapping or text denoting one.
CellOk(c) == c.type = "dict" \/ (c.type = "str" /\ c.lit = "dict")

\* Every value of a features cell is a number or numeric text.
NumericItems(c) == \A name \in DOMAIN c.items : c.items[name].t # "str" \/ c.items[name].ok

FeaturesWellFormed(cells) == \A i \in DOMAIN cells : CellOk(cells[i]) /\ NumericItems(cells[i])
HptWellFormed(cells) == \A i \in DOMAIN cells : CellOk(cells[i])
WellFormed(df) ==
    /\ df.isDataFrame
    /\ Range(expected_cols) \subseteq df.cols
    /\ FeaturesWellFormed(df.features)
    /\ HptWellFormed(df.hpt_res)

\* after is before / 86400, both in lowest form.
IsDivided(after, before) ==
    IF before.n % 86400 = 0 /\ before.k = 0
    THEN after = [n |-> before.n \div 86400, k |-> 0]
    ELSE after = [n |-> before.n, k |-> before.k + 1]

\* The parameter mappings of a list of training records, by value.
RecordView(table, h) ==
    [i \in DOMAIN table |->
        [m \in DOMAIN table[i].hpt_res.items |-> h[table[i].hpt_res.items[m][1].addr]]]

\* C1: the constructor accepts exactly the tables with more than 30 rows
\* and the three columns; it leaves the table alone and creates no
\* classifier; when it rejects it raises ValueError, when it accepts the
\* results mapping is empty and the classifier handle None.
C1_Valid(df) ==
    /\ df.isDataFrame
    /\ df.n > 30
    /\ {"hpt_res", "features", "best_model"} \subseteq df.cols
C1_Construction ==
    [][MetaDetectModelSelect_init =>
        /\ metadata_df' = metadata_df
        /\ heap' = heap
        /\ nclf' = 0
        /\ mlms' = None
        /\ IF C1_Valid(metadata_df)
           THEN phase' = "constructed" /\ results' = EmptyDict
           ELSE phase' = "rejected" /\ last'.kind = "raise" /\ last'.err = "ValueError"]_vars
C1_Witness ==
    /\ last.op = "__init__"
    /\ phase = "constructed"
    /\ metadata_df.n = 31
    /\ results = EmptyDict
    /\ mlms = None

\* C2: report_metrics on an orchestrator that never trained runs train and
\* returns the summary whose type column is <<"fit_error", "pred_error">>.
C2_ReportTrainsFirst ==
    [][(last'.op = "report_metrics" /\ trainCalls = 0 /\ WellFormed(metadata_df)
          /\ ReportMetrics) =>
        /\ trainCalls' = 1
        /\ last'.kind = "return"
        /\ last'.summary.type = <<"fit_error", "pred_error">>
        /\ Len(last'.summary.rows) = 2]_vars

\* C3: with no classifier, predict on a well-formed series and fit_results
\* on a well-formed table raise ValueError "Please train a classifier first.".
C3_Inputs ==
    \/ last.op = "predict" /\ last.arg = "series"
    \/ last.op = "fit_results" /\ FeaturesWellFormed(metadata_df.features)
C3_TrainFirst ==
    (C3_Inputs /\ mlms = None) =>
        /\ last.kind = "raise"
        /\ last.err = "ValueError"
        /\ last.msg = "Please train a classifier first."
C3_Witness ==
    /\ last.op = "fit_results"
    /\ FeaturesWellFormed(metadata_df.features)
    /\ mlms = None
    /\ last.kind = "raise"
    /\ last.msg = "Please train a classifier first."

\* C4: with no classifier, pred_by_feature on a well-formed table raises
\* the same ValueError "Please train a classifier first.".
C4_TrainFirst ==
    (last.op = "pred_by_feature" /\ last.arg = "wellformed" /\ mlms = None) =>
        /\ last.kind = "raise"
        /\ last.err = "ValueError"
        /\ last.msg = "Please train a classifier first."

\* C5: one run of metadata_detect_preprocessor over well-formed rows leaves,
\* in the returned records, every parameter of the scaling set at its value
\* before the run divided by 86400 and every other parameter unchanged.
C5_Scaled(before, after, S) ==
    /\ DOMAIN after = DOMAIN before
    /\ \A i \in DOMAIN before :
        /\ DOMAIN after[i] = DOMAIN before[i]
        /\ \A m \in DOMAIN before[i] :
            /\ DOMAIN after[i][m] = DOMAIN before[i][m]
            /\ \A p \in DOMAIN before[i][m] :
                IF p \in S THEN IsDivided(after[i][m][p], before[i][m][p])
                ELSE after[i][m][p] = before[i][m][p]
C5_ScalingPerRun ==
    [][(last'.op = "metadata_detect_preprocessor" /\ WellFormed(metadata_df) /\ Preprocess) =>
        /\ last'.kind = "return"
        /\ C5_Scaled(HptView(metadata_df.hpt_res, heap),
                     RecordView(last'.table, heap'), params_to_scale_down)]_vars
C5_Witness ==
    /\ last.op = "metadata_detect_preprocessor"
    /\ last.kind = "return"
    /\ metadata_df.n = 31
    /\ params_to_scale_down = {"historical_window", "scan_window"}
    /\ RecordView(last.table, heap)[1]["cusum"]["historical_window"] = [n |-> 1, k |-> 0]
    /\ RecordView(last.table, heap)[1]["cusum"]["threshold"] = [n |-> 5, k |-> 0]

\* C6: a train call that returns leaves a classifier that was built in this
\* call over the preprocessed records, and self.results is the mapping the
\* collaborator returned, with keys fit_error, pred_error, clf_accuracy; it
\* is also what train returns.
C6_TrainReplaces ==
    [][(last'.op = "train" /\ last'.kind = "return" /\ Train) =>
        /\ mlms' # None
        /\ mlms'.id > nclf
        /\ mlms'.id # mlms.id
        /\ mlms'.records =
              [i \in 1..metadata_df.n |->
                  [hpt_res |-> metadata_df'.hpt_res[i],
                   features |-> metadata_df'.features[i],
                   best_model |-> metadata_df'.best_model[i]]]
        /\ results'.type = "dict"
        /\ results'.items = last'.collab
        /\ DOMAIN results'.items = {"fit_error", "pred_error", "clf_accuracy"}
        /\ last'.metrics = results']_vars
C6_Witness ==
    /\ last.op = "train"
    /\ last.kind = "return"
    /\ trainOk = 2
    /\ mlms.id = 2
    /\ results.items = last.collab

\* C7: metadata_detect_preprocessor returns one record per row, in row
\* order: record i has the best_model of row i, the features of row i
\* (parsed and converted to float) and the hpt_res of row i (parsed and
\* scaled).
C7_RowFeatures(cell) == [name \in DOMAIN cell.items |-> to_float(cell.items[name]).val]
C7_RowHpt(view, S) == [m \in DOMAIN view |-> ScaleParams(view[m], S)]
C7_OneRecordPerRow ==
    [][(last'.op = "metadata_detect_preprocessor" /\ last'.kind = "return" /\ Preprocess) =>
        /\ Len(last'.table) = metadata_df.n
        /\ \A i \in 1..metadata_df.n :
            /\ last'.table[i].best_model = metadata_df.best_model[i]
            /\ last'.table[i].features.type = "dict"
            /\ last'.table[i].features.items = C7_RowFeatures(metadata_df.features[i])
            /\ RecordView(last'.table, heap')[i]
                 = C7_RowHpt(HptView(metadata_df.hpt_res, heap)[i], params_to_scale_down)]_vars
C7_Witness ==
    /\ last.op = "metadata_detect_preprocessor"
    /\ last.kind = "return"
    /\ Len(last.table) = 10
    /\ last.table[2].best_model = "bocpd"
    /\ last.table[3].best_model = "cusum"

\* C8: after the n-th train call, for every n >= 1, every parameter of the
\* scaling set is, in the classifier's records and in the stored table, the
\* value the constructor received divided by 86400.
C8_ScaledOnce ==
    (last.op = "train" /\ last.kind = "return") =>
        /\ C5_Scaled(orig, RecordView(mlms.records, heap), params_to_scale_down)
        /\ C5_Scaled(orig, HptView(metadata_df.hpt_res, heap), params_to_scale_down)

\* C9: as long as no train call has returned, the classifier handle is None.
C9_NoneUntilTrained == trainOk = 0 => mlms = None

\* C10: change_str_to_dict returns a mapping unchanged, turns text into a
\* mapping or None, and raises ValueError for anything else.
C10_ThreeOutcomes ==
    last.op = "change_str_to_dict" =>
        IF last.x.type = "dict" THEN last.kind = "return" /\ last.val = last.x
        ELSE IF last.x.type = "str"
        THEN last.kind = "return" /\ last.val.type \in {"dict", "None"}
        ELSE last.kind = "raise" /\ last.err = "ValueError"

====
